---- MODULE Spec2Model ----
(***************************************************************************)
(* A model of the Utah Avalanche Center scraper (scrape.py and            *)
(* observations.py): the pagination harvester, the batch harvests, the    *)
(* field reader and the unit normaliser, the colour classifier and the    *)
(* rose decoder, the record extractors and the incremental store.         *)
(*                                                                         *)
(* Every component has its own variables and its own specification; a     *)
(* specification leaves the variables of the other components at their    *)
(* idle values.                                                            *)
(***************************************************************************)
EXTENDS Integers, Sequences, FiniteSets, TLC

VARIABLES
    \* ---- pagination harvester (get_observation_table / get_obs)
    fn,                  \* which of the two duplicate functions runs
    source,              \* the remote site: page index -> rows or a failure
    page_num,            \* the local page_num
    observations_table,  \* the local data frame: a sequence of [idx, row]
    requested,           \* the page indices requested so far, in order
    hpc,                 \* "loop" | "returned" | "raised"
    \* ---- batch harvests (get_avalanche_data / get_observation_data / get_forecasts)
    bfn,                 \* which batch harvest is called
    table,               \* the observation table the harvest starts from
    start_date,          \* argument start_date (a day number)
    end_date,            \* argument end_date (a day number)
    TODAY,               \* the module constant TODAY (a day number)
    forecast_site,       \* day number -> what the forecast page of that day gives
    batch,               \* the call: [pc |-> "call"] or its outcome
    \* ---- unit normaliser (convert_to_numeric)
    nfield,              \* argument field
    raw_input,           \* argument raw_string
    numeric,             \* the call: [pc |-> "call"] or its outcome
    \* ---- field reader (read_field_entry)
    rfield,              \* argument field
    soup,                \* the parsed document: [title, body]
    fieldread,           \* the call: [pc |-> "call"] or its outcome
    \* ---- incremental store (save_data / update_data)
    files,               \* the file system: file name -> data frame
    saved,               \* the data frame main saves, and the name it got
    dir_prefix,          \* how the caller of update_data names the directory
    harvest_ok,          \* whether the harvest update_data calls returns
    updates,             \* the calls of update_data so far, with their outcomes
    \* ---- colour classifier (classify_danger / classify_presence)
    cfn,                 \* which classifier is called
    rgb,                 \* argument rgb_tuple
    classified,          \* the call: [pc |-> "call"] or its outcome
    \* ---- rose decoder (get_danger_rose / get_location_rose)
    rfn,                 \* which decoder is called
    rose_url_found,      \* whether get_rose_url finds the rose on the page
    image_opens,         \* whether Image.open gets the image
    rose_img,            \* the image
    rose,                \* the call: [pc |-> "call"] or its outcome
    \* ---- record extractor (read_avalanche_observation / read_general_observation)
    xfn,                 \* which extractor is called
    page_fetched,        \* whether requests.get gets the page
    record,              \* the call: [pc |-> "call"] or its outcome
    \* ---- season (get_season_start)
    season_date,         \* argument date: [year, month, day]
    season_start         \* the call: [pc |-> "call"] or its outcome

harvestVars == <<fn, source, page_num, observations_table, requested, hpc>>
batchVars == <<bfn, table, start_date, end_date, forecast_site, batch>>

numericVars == <<nfield, raw_input, numeric>>

fieldVars == <<rfield, soup, fieldread>>

storeVars == <<files, saved, dir_prefix, harvest_ok, updates>>

classifyVars == <<cfn, rgb, classified>>
roseVars == <<rfn, rose_url_found, image_opens, rose_img, rose>>

recordVars == <<xfn, page_fetched, record>>

seasonVars == <<season_date, season_start>>

vars == <<harvestVars, batchVars, numericVars, fieldVars, storeVars, classifyVars,
          roseVars, recordVars, seasonVars, TODAY>>

None == "None"

(***************************************************************************)
(* Generic helpers                                                         *)
(***************************************************************************)
RECURSIVE SeqsUpTo(_, _)
SeqsUpTo(S, n) ==
    IF n = 0 THEN {<<>>}
    ELSE LET shorter == SeqsUpTo(S, n - 1)
         IN  shorter \cup {Append(s, x) : s \in {t \in shorter : Len(t) = n - 1}, x \in S}

NonEmptySeqsUpTo(S, n) == SeqsUpTo(S, n) \ {<<>>}

(***************************************************************************)
(* PaginationHarvester                                                     *)
(***************************************************************************)
MaxPages == 3
MaxRowsPerPage == 2

SummaryRows == {"rowA", "rowB"}

\* A page of the source either cannot be fetched, or is fetched and cannot be
\* parsed into a table, or yields the rows of its table.
FetchError == [status |-> "FetchError", rows |-> <<>>]
ParseError == [status |-> "ParseError", rows |-> <<>>]
PageOutcomes ==
    {FetchError, ParseError}
    \cup {[status |-> "ok", rows |-> r] : r \in NonEmptySeqsUpTo(SummaryRows, MaxRowsPerPage)}

\* A source with finitely many list pages: every index past the last page has
\* no table, so parsing it fails.
Sources == SeqsUpTo(PageOutcomes, MaxPages)

PageAt(src, k) == IF k + 1 <= Len(src) THEN src[k + 1] ELSE ParseError

PageFails(src, k) == PageAt(src, k).status # "ok"

\* get_page_obs: the data frame of one page, indexed 0..n-1 by read_html.
get_page_obs(src, k) ==
    LET rows == PageAt(src, k).rows
    IN  [i \in 1..Len(rows) |-> [idx |-> i - 1, row |-> rows[i]]]

\* pd.concat([a, b]): the rows of a followed by the rows of b, indices kept.
pd_concat_prepend(a, b) == b \o a
pd_concat(a, b) == a \o b

\* DataFrame.reset_index(drop=True): the same rows renumbered 0..n-1.
reset_index(df) == [i \in 1..Len(df) |-> [idx |-> i - 1, row |-> df[i].row]]

HarvestIdle ==
    /\ fn = None
    /\ source = <<>>
    /\ page_num = 0
    /\ observations_table = <<>>
    /\ requested = <<>>
    /\ hpc = "idle"

HarvestStart ==
    /\ fn \in {"get_observation_table", "get_obs"}
    /\ source \in Sources
    /\ page_num = 0
    /\ observations_table = <<>>
    /\ requested = <<>>
    /\ hpc = "loop"

\* The loop as it would be with an except clause that does not break: a
\* failing page leaves the loop where it is.
HarvestIterationRetry ==
    /\ hpc = "loop"
    /\ IF PageFails(source, page_num)
       THEN UNCHANGED <<requested, observations_table, hpc, page_num>>
       ELSE /\ requested' = Append(requested, page_num)
            /\ observations_table' =
                  pd_concat(observations_table, get_page_obs(source, page_num))
            /\ page_num' = page_num + 1
            /\ UNCHANGED hpc
    /\ UNCHANGED <<fn, source>>
    /\ UNCHANGED <<batchVars, numericVars, fieldVars, storeVars, classifyVars, roseVars,
                   recordVars, seasonVars, TODAY>>

\* One iteration of the while True loop of the harvester; the failing
\* iteration breaks, resets the index and returns.
HarvestIteration ==
    /\ hpc = "loop"
    /\ requested' = Append(requested, page_num)
    /\ IF PageFails(source, page_num)
       THEN /\ observations_table' = reset_index(observations_table)
            /\ hpc' = "returned"
            /\ UNCHANGED page_num
       ELSE /\ observations_table' =
                  pd_concat(observations_table, get_page_obs(source, page_num))
            /\ page_num' = page_num + 1
            /\ UNCHANGED hpc
    /\ UNCHANGED <<fn, source>>
    /\ UNCHANGED <<batchVars, numericVars, fieldVars, storeVars, classifyVars, roseVars,
                   recordVars, seasonVars, TODAY>>

get_observation_table ==
    /\ fn = "get_observation_table"
    /\ HarvestIteration

get_obs ==
    /\ fn = "get_obs"
    /\ HarvestIteration


\* The rows of a data frame, and the rows of the pages 0..k-1 in page order.
RowsOf(df) == [i \in 1..Len(df) |-> df[i].row]

RECURSIVE RowsOfPages(_, _)
RowsOfPages(src, k) ==
    IF k = 0 THEN <<>> ELSE RowsOfPages(src, k - 1) \o PageAt(src, k - 1).rows

FirstFailing(src) ==
    CHOOSE k \in 0..Len(src) :
        /\ PageFails(src, k)
        /\ \A j \in 0..(k - 1) : ~PageFails(src, j)

\* C1: the harvester requests the page indices 0, 1, 2, ... in increasing
\* order, and when page k is the first index whose fetch or parse fails it
\* returns exactly the rows of pages 0..k-1 in page order, re-indexed
\* 0..n-1, and raises nothing; with k = 0 the table is empty.
C1_StopOnFirstFailure ==
    /\ hpc # "raised"
    /\ requested = [i \in 1..Len(requested) |-> i - 1]
    /\ hpc = "returned" =>
         LET k == FirstFailing(source)
         IN  /\ requested = [i \in 1..(k + 1) |-> i - 1]
             /\ RowsOf(observations_table) = RowsOfPages(source, k)
             /\ \A i \in 1..Len(observations_table) : observations_table[i].idx = i - 1
             /\ (k = 0 => observations_table = <<>>)

\* A three-page source whose page 2 fails after two good pages, harvested.
C1_Witness ==
    /\ hpc = "returned"
    /\ Len(source) = 3
    /\ FirstFailing(source) = 2
    /\ Len(observations_table) >= 3

\* C14: the pagination harvest terminates at the end of the data: on a
\* source with finitely many list pages the harvester eventually returns,
\* it requests no page index twice, and it returns only on a page that
\* fails to fetch or parse.
C14_HarvestTerminates ==
    /\ [](\A i, j \in 1..Len(requested) : i # j => requested[i] # requested[j])
    /\ [](hpc = "returned" => PageFails(source, requested[Len(requested)]))
    /\ <>(hpc = "returned")

\* A source of three good pages harvested to its end: the index after the
\* last page is the one that fails.
C14_Witness ==
    /\ fn = "get_observation_table"
    /\ hpc = "returned"
    /\ Len(source) = MaxPages
    /\ \A k \in 0..(Len(source) - 1) : ~PageFails(source, k)
    /\ requested = [i \in 1..(Len(source) + 1) |-> i - 1]

(***************************************************************************)
(* Batch harvests                                                          *)
(***************************************************************************)
MaxItems == 2
MaxDay == 3

NaN == "NaN"
Valid == "valid"

\* What reading one report page gives: the read raises (fetch or extraction
\* failure), or returns a record.  Of a record only the two columns the batch
\* reformats are kept: a record with every field has both (each a valid
\* string or None), the empty record has none.
ReadRaises == [kind |-> "raise", rec |-> <<>>]
ReadOutcomes ==
    {ReadRaises}
    \cup {[kind |-> "record", rec |-> <<>>]}
    \cup {[kind |-> "record",
           rec |-> [c \in {"Observation Date", "Region"} |->
                      IF c = "Region" THEN r ELSE d]] :
             d \in {Valid, None}, r \in {Valid, None}}

TitlePrefixes == {"Avalanche", "Observation"}

ObservationTables ==
    SeqsUpTo([prefix : TitlePrefixes, page : ReadOutcomes], MaxItems)

ForecastOutcomes == {"forecast", "no_rose", "raise"}

Returned(v) == [pc |-> "returned", value |-> v, exc |-> None]
Raised(e) == [pc |-> "raised", value |-> None, exc |-> e]

\* filter_avalanche / filter_general_observations: the rows whose title prefix
\* is the wanted one; an empty data frame has no 'Observation Title' column.
FilterByPrefix(tbl, prefix) ==
    IF tbl = <<>> THEN Raised("KeyError")
    ELSE Returned(SelectSeq(tbl, LAMBDA row : row.prefix = prefix))

filter_avalanche(tbl) == FilterByPrefix(tbl, "Avalanche")
filter_general_observations(tbl) == FilterByPrefix(tbl, "Observation")

\* The for loop over the extensions: a record read is appended to data, a
\* read that raises appends the extension (here its position) to err.
RECURSIVE ReadAll(_, _)
ReadAll(rows, n) ==
    IF n = 0 THEN [data |-> <<>>, err |-> <<>>]
    ELSE LET before == ReadAll(rows, n - 1)
             page == rows[n].page
         IN  IF page.kind = "raise"
             THEN [data |-> before.data, err |-> Append(before.err, n)]
             ELSE [data |-> Append(before.data, page.rec), err |-> before.err]

\* pd.DataFrame(data): the columns are the union of the records' keys, a
\* record without a key has NaN in that column.
Columns(data) == UNION {DOMAIN data[i] : i \in 1..Len(data)}
Cell(data, i, c) == IF c \in DOMAIN data[i] THEN data[i][c] ELSE NaN

\* The reformat after the loop: strptime on every 'Observation Date' and
\* get_forecast_region on every 'Region'.
Reformat(data, err) ==
    IF "Observation Date" \notin Columns(data) THEN Raised("KeyError")
    ELSE IF \E i \in 1..Len(data) : Cell(data, i, "Observation Date") # Valid
         THEN Raised("TypeError")
    ELSE IF "Region" \notin Columns(data) THEN Raised("AttributeError")
    ELSE IF \E i \in 1..Len(data) : Cell(data, i, "Region") # Valid
         THEN Raised("AttributeError")
    ELSE Returned([data |-> data, err |-> err])

HarvestRecords(filtered) ==
    IF filtered.pc = "raised" THEN filtered
    ELSE LET read == ReadAll(filtered.value, Len(filtered.value))
         IN  Reformat(read.data, read.err)

\* get_forecasts: get_forecast for every day from start_date while
\* date <= TODAY; nothing catches what get_forecast raises.
RECURSIVE ForecastLoop(_, _, _, _)
ForecastLoop(date, last, site, forecasts) ==
    IF ~(date <= last) THEN Returned([data |-> forecasts, err |-> <<>>])
    ELSE IF site[date] = "raise" THEN Raised("Exception")
    ELSE ForecastLoop(date + 1, last, site,
                      Append(forecasts, [Date |-> date, rose |-> site[date]]))

BatchIdle ==
    /\ bfn = None
    /\ table = <<>>
    /\ start_date = 0
    /\ end_date = 0
    /\ forecast_site = <<>>
    /\ batch = [pc |-> "idle"]

BatchStart ==
    /\ bfn \in {"get_avalanche_data", "get_observation_data", "get_forecasts"}
    /\ batch = [pc |-> "call"]
    /\ IF bfn = "get_forecasts"
       THEN /\ table = <<>>
            /\ TODAY \in 0..MaxDay
            /\ start_date \in 0..MaxDay
            /\ end_date \in 0..MaxDay
            /\ forecast_site \in [0..MaxDay -> ForecastOutcomes]
       ELSE /\ table \in ObservationTables
            /\ TODAY = 0
            /\ start_date = 0
            /\ end_date = 0
            /\ forecast_site = <<>>

get_avalanche_data ==
    /\ bfn = "get_avalanche_data"
    /\ batch.pc = "call"
    /\ batch' = HarvestRecords(filter_avalanche(table))
    /\ UNCHANGED <<bfn, table, start_date, end_date, forecast_site>>
    /\ UNCHANGED <<harvestVars, numericVars, fieldVars, storeVars, classifyVars, roseVars,
                   recordVars, seasonVars, TODAY>>

get_observation_data ==
    /\ bfn = "get_observation_data"
    /\ batch.pc = "call"
    /\ batch' = HarvestRecords(filter_general_observations(table))
    /\ UNCHANGED <<bfn, table, start_date, end_date, forecast_site>>
    /\ UNCHANGED <<harvestVars, numericVars, fieldVars, storeVars, classifyVars, roseVars,
                   recordVars, seasonVars, TODAY>>

get_forecasts ==
    /\ bfn = "get_forecasts"
    /\ batch.pc = "call"
    /\ batch' = ForecastLoop(start_date, TODAY, forecast_site, <<>>)
    /\ UNCHANGED <<bfn, table, start_date, end_date, forecast_site>>
    /\ UNCHANGED <<harvestVars, numericVars, fieldVars, storeVars, classifyVars, roseVars,
                   recordVars, seasonVars, TODAY>>

\* C2: no batch harvest raises because of a single item: whatever the items
\* give (records with fields Absent, empty records, failures, no item at
\* all), the call returns its result.
C2_BatchNeverRaises == batch.pc # "raised"

\* The days of the forecasts fetched, in the order fetched.
FetchedDays(forecasts) == [i \in 1..Len(forecasts) |-> forecasts[i].Date]

\* C15: get_forecasts(start_date, end_date, region) fetches one forecast for
\* each day from start_date to end_date in increasing order and none for a
\* day after end_date; with start_date > end_date it fetches nothing.
C15_ForecastsWithinRange ==
    (bfn = "get_forecasts" /\ batch.pc = "returned")
    => FetchedDays(batch.value.data) =
         [i \in 1..(IF start_date > end_date THEN 0 ELSE end_date - start_date + 1) |->
             start_date + i - 1]

(***************************************************************************)
(* UnitNormalizer: convert_to_numeric                                      *)
(***************************************************************************)
MaxRawLen == 3

\* Text is a sequence of characters.
Digits == {"0", "1", "2", "3", "4", "5", "6", "7", "8", "9"}
Foot == "'"
Inch == "\""
Degree == "°"

DigitVal(c) ==
    CASE c = "0" -> 0 [] c = "1" -> 1 [] c = "2" -> 2 [] c = "3" -> 3
      [] c = "4" -> 4 [] c = "5" -> 5 [] c = "6" -> 6 [] c = "7" -> 7
      [] c = "8" -> 8 [] c = "9" -> 9

NUMERIC_FIELDS == {"Elevation", "Depth", "Width", "New Snow Depth", "Slope Angle"}

FIELD_UNITS(field) ==
    CASE field = "Elevation" -> Foot
      [] field = "Depth" -> Inch
      [] field = "Width" -> Foot
      [] field = "Slope Angle" -> Degree
      [] field = "New Snow Depth" -> Inch

\* The characters raw strings are drawn from, and the documented examples.
RawChars == {"0", "5", "7", Foot, Inch, Degree, ",", ".", "x", ")"}

RawExamples ==
    { <<"7", Foot, "6", Inch>>,
      <<"7", ",", "5", "0", "0", Foot>>,
      <<"2", "4", Inch>>,
      <<"2", ".", "5", Foot>>,
      <<"3", "5", Degree>> }

RawStrings == NonEmptySeqsUpTo(RawChars, MaxRawLen) \cup RawExamples

\* A float is kept exactly, as num / den with den a power of ten (the
\* rounding of binary floating point is left out).
Float(n, d) == [k |-> "float", num |-> n, den |-> d]
Absent == [k |-> "none", num |-> 0, den |-> 1]
NumEq(a, b) == a.num * b.den = b.num * a.den

RECURSIVE IntOf(_)
IntOf(ds) ==
    IF ds = <<>> THEN 0
    ELSE 10 * IntOf(SubSeq(ds, 1, Len(ds) - 1)) + DigitVal(ds[Len(ds)])

RECURSIVE Pow10(_)
Pow10(n) == IF n = 0 THEN 1 ELSE 10 * Pow10(n - 1)

\* contains_digit: re.search(r'\d', raw_string).
contains_digit(s) == \E i \in 1..Len(s) : s[i] \in Digits

\* The length of the longest run of digits of s that starts at position p.
DigitRun(s, p) ==
    CHOOSE n \in 0..(Len(s) - p + 1) :
        /\ \A i \in p..(p + n - 1) : s[i] \in Digits
        /\ (p + n <= Len(s) => s[p + n] \notin Digits)

NoMatch == [matched |-> FALSE, g1 |-> <<>>, g2 |-> <<>>]
Match(a, b) == [matched |-> TRUE, g1 |-> a, g2 |-> b]

\* RE_UNITS[glyph].match for the feet and inches patterns
\* ([0-9]*|[0-9]*.[0-9]*)glyph, anchored at the start: the first alternative
\* with the longest digit prefix that the glyph follows; failing that the
\* second alternative, digits, any one character, digits, glyph, each digit
\* run tried longest first.
MatchDecimal(s, glyph) ==
    LET run == DigitRun(s, 1)
        alt1 == {k \in 0..run : k + 1 <= Len(s) /\ s[k + 1] = glyph}
        alt2 == {<<a, b>> \in (0..run) \X (0..Len(s)) :
                    /\ a + 1 <= Len(s)
                    /\ b <= DigitRun(s, a + 2)
                    /\ a + b + 2 <= Len(s)
                    /\ s[a + b + 2] = glyph}
    IN  IF alt1 # {}
        THEN Match(SubSeq(s, 1, CHOOSE k \in alt1 : \A j \in alt1 : j <= k), <<>>)
        ELSE IF alt2 # {}
        THEN LET a == CHOOSE x \in {p[1] : p \in alt2} : \A p \in alt2 : p[1] <= x
                 b == CHOOSE y \in {p[2] : p \in {q \in alt2 : q[1] = a}} :
                          \A p \in {q \in alt2 : q[1] = a} : p[2] <= y
             IN  Match(SubSeq(s, 1, a + 1 + b), <<>>)
        ELSE NoMatch

\* RE_UNITS['°'].match: ([0-9]*)°.
MatchDegrees(s) ==
    LET run == DigitRun(s, 1)
    IN  IF run + 1 <= Len(s) /\ s[run + 1] = Degree
        THEN Match(SubSeq(s, 1, run), <<>>)
        ELSE NoMatch

\* RE_UNITS['Elevation'].match: ([0-9]*),([0-9]*)'.
MatchElevation(s) ==
    LET r1 == DigitRun(s, 1)
        r2 == DigitRun(s, r1 + 2)
    IN  IF /\ r1 + 1 <= Len(s)
           /\ s[r1 + 1] = ","
           /\ r1 + r2 + 2 <= Len(s)
           /\ s[r1 + r2 + 2] = Foot
        THEN Match(SubSeq(s, 1, r1), SubSeq(s, r1 + 2, r1 + r2 + 1))
        ELSE NoMatch

RE_UNITS(key, s) ==
    CASE key = "Elevation" -> MatchElevation(s)
      [] key = Degree -> MatchDegrees(s)
      [] OTHER -> MatchDecimal(s, key)

\* float(text) for the texts the patterns can capture: digits with at most
\* one '.' among them and at least one digit; anything else is a ValueError.
FloatOk(g) ==
    /\ contains_digit(g)
    /\ \A i \in 1..Len(g) : g[i] \in Digits \cup {"."}
    /\ Cardinality({i \in 1..Len(g) : g[i] = "."}) <= 1

ParseFloat(g) ==
    LET dots == {i \in 1..Len(g) : g[i] = "."}
    IN  IF dots = {} THEN Float(IntOf(g), 1)
        ELSE LET d == CHOOSE i \in dots : TRUE
                 whole == SubSeq(g, 1, d - 1)
                 frac == SubSeq(g, d + 1, Len(g))
             IN  Float(IntOf(whole \o frac), Pow10(Len(frac)))

\* re.sub(unit, field_unit, raw_string): unit is used as a pattern, so '.'
\* stands for every character and ')' is not a pattern at all.
re_sub(unit, repl, s) ==
    [i \in 1..Len(s) |-> IF unit = "." \/ s[i] = unit THEN repl ELSE s[i]]

\* convert_to_inches
convert_to_inches(l_feet) == Float(l_feet.num * 12, l_feet.den)

\* convert_to_numeric(raw_string, field).  raw is [k |-> "none"] for None,
\* or [k |-> "text", chars |-> ...].
RawNone == [k |-> "none", chars |-> <<>>]
RawText(cs) == [k |-> "text", chars |-> cs]

convert_to_numeric(raw, field) ==
    IF raw.k = "none" THEN Raised("TypeError")
    ELSE IF ~contains_digit(raw.chars) THEN Returned(Absent)
    ELSE
      LET unit == raw.chars[Len(raw.chars)]
          field_unit == FIELD_UNITS(field)
          differs == unit # field_unit
      IN  IF differs /\ unit = ")" THEN Raised("re.error")
          ELSE
            LET raw_string == IF differs THEN re_sub(unit, field_unit, raw.chars)
                              ELSE raw.chars
                m == IF field = "Elevation" THEN RE_UNITS("Elevation", raw_string)
                     ELSE RE_UNITS(field_unit, raw_string)
            IN  IF ~m.matched THEN Raised("AttributeError")
                ELSE IF ~FloatOk(m.g1) THEN Raised("ValueError")
                ELSE IF field = "Elevation" /\ ~FloatOk(m.g2) THEN Raised("ValueError")
                ELSE
                  LET parsed == IF field = "Elevation"
                                THEN Float(ParseFloat(m.g1).num * 1000
                                             + ParseFloat(m.g2).num, 1)
                                ELSE ParseFloat(m.g1)
                  IN  Returned(IF differs THEN convert_to_inches(parsed) ELSE parsed)

NumericIdle ==
    /\ nfield = None
    /\ raw_input = RawNone
    /\ numeric = [pc |-> "idle"]

NumericStart ==
    /\ nfield \in NUMERIC_FIELDS
    /\ raw_input \in {RawText(cs) : cs \in RawStrings}
    /\ numeric = [pc |-> "call"]

ConvertToNumeric ==
    /\ numeric.pc = "call"
    /\ numeric' = convert_to_numeric(raw_input, nfield)
    /\ UNCHANGED <<nfield, raw_input>>
    /\ UNCHANGED <<harvestVars, batchVars, fieldVars, storeVars, classifyVars, roseVars,
                   recordVars, seasonVars, TODAY>>

\* C4: convert_to_numeric of 7'6" for field Width returns 90.
C4_SevenFeetSixIsNinety ==
    (/\ numeric.pc \in {"returned", "raised"}
     /\ nfield = "Width"
     /\ raw_input = RawText(<<"7", Foot, "6", Inch>>))
    => /\ numeric.pc = "returned"
       /\ numeric.value.k = "float"
       /\ NumEq(numeric.value, Float(90, 1))

\* A raw string that is a plain magnitude followed by a length unit glyph,
\* and the magnitude it states.
IsLength(cs) ==
    /\ Len(cs) >= 2
    /\ cs[Len(cs)] \in {Foot, Inch}
    /\ FloatOk(SubSeq(cs, 1, Len(cs) - 1))

StatedMagnitude(cs) == ParseFloat(SubSeq(cs, 1, Len(cs) - 1))

\* C5: whenever the trailing unit of the raw string differs from the field's
\* canonical unit, the result is the magnitude converted from the scraped
\* unit to the canonical unit: feet given for an inches field are returned
\* in inches (x 12), inches given for a feet field are returned in feet
\* (/ 12).
C5_ConvertedToCanonicalUnit ==
    (/\ numeric.pc \in {"returned", "raised"}
     /\ nfield \in {"Depth", "New Snow Depth", "Width"}
     /\ IsLength(raw_input.chars)
     /\ raw_input.chars[Len(raw_input.chars)] # FIELD_UNITS(nfield))
    => /\ numeric.pc = "returned"
       /\ numeric.value.k = "float"
       /\ LET m == StatedMagnitude(raw_input.chars)
          IN  IF FIELD_UNITS(nfield) = Inch
              THEN NumEq(numeric.value, Float(m.num * 12, m.den))
              ELSE NumEq(numeric.value, Float(m.num, m.den * 12))

\* A Slope Angle string read as it stands: the degrees pattern on the raw
\* string, no glyph substituted and nothing multiplied.
ReadAsItStands(cs) ==
    LET m == MatchDegrees(cs)
    IN  IF ~m.matched THEN Raised("AttributeError")
        ELSE IF ~FloatOk(m.g1) THEN Raised("ValueError")
        ELSE Returned(ParseFloat(m.g1))

\* C17: for field Slope Angle convert_to_numeric never takes the
\* unit-mismatch branch: for every raw string that holds a digit it neither
\* substitutes a unit glyph nor multiplies the parsed magnitude by 12.
C17_SlopeAngleNeverConverted ==
    (/\ nfield = "Slope Angle"
     /\ numeric.pc = "returned"
     /\ contains_digit(raw_input.chars))
    => numeric = ReadAsItStands(raw_input.chars)

(***************************************************************************)
(* FieldReader: read_field_entry                                           *)
(***************************************************************************)
MaxNodes == 3

FIELDS_DICT(group) ==
    CASE group = "General" ->
           <<"Observer Name", "Observation Date", "Region",
             "Location Name or Route", "Comments">>
      [] group = "Weather" ->
           <<"Sky", "Wind Direction", "Wind Speed", "Weather Comments">>
      [] group = "Snow Characteristics" ->
           <<"New Snow Depth", "New Snow Density", "Snow Surface Conditions",
             "Snow Characteristics Comments">>
      [] group = "Red Flags" -> <<"Red Flags", "Red Flags Comments">>
      [] group = "Avalanche Problem #1" ->
           <<"Problem", "Trend", "Problem #1 Comments">>
      [] group = "Avalanche Problem #2" ->
           <<"Problem", "Trend", "Problem #2 Comments">>
      [] group = "Snow Profile" -> <<"Aspect", "Elevation", "Slope Angle">>
      [] group = "Avalanche" ->
           <<"Elevation", "Aspect", "Trigger", "Depth", "Width", "Carried">>

FieldGroups ==
    <<"General", "Weather", "Snow Characteristics", "Red Flags",
      "Avalanche Problem #1", "Avalanche Problem #2", "Snow Profile", "Avalanche">>

SchemaFields ==
    UNION {{FIELDS_DICT(FieldGroups[g])[i] : i \in 1..Len(FIELDS_DICT(FieldGroups[g]))} :
             g \in 1..Len(FieldGroups)}

\* A node of the document, seen through its .string: a tag that holds a
\* field label, a tag or text node that holds other text, or a tag whose
\* .string is None (several children).
LabelNode(name) == [k |-> "label", name |-> name, chars |-> <<>>]
TextNode(cs) == [k |-> "text", name |-> "", chars |-> cs]
NoStringNode == [k |-> "none", name |-> "", chars |-> <<>>]

DocLabels == {"Elevation", "Aspect", "Problem #1 Comments"}
DocTexts ==
    { <<"\n">>, <<"N">>, <<"7", ",", "5", "0", "0", Foot>>, <<"3", "8", Degree>> }

DocNodes ==
    {LabelNode(l) : l \in DocLabels} \cup {TextNode(t) : t \in DocTexts} \cup {NoStringNode}

Bodies == SeqsUpTo(DocNodes, MaxNodes)

\* soup.find(string=field): the position of the first node whose string is
\* the label, 0 when there is none (find returns None).
find(body, field) ==
    IF \E i \in 1..Len(body) : body[i] = LabelNode(field)
    THEN CHOOSE i \in 1..Len(body) :
            /\ body[i] = LabelNode(field)
            /\ \A j \in 1..(i - 1) : body[j] # LabelNode(field)
    ELSE 0

\* .parent.next_sibling.next_sibling of the node at position i: the position
\* two further, 0 when a sibling is missing (an AttributeError on None).
NextNextSibling(body, i) == IF i + 2 <= Len(body) THEN i + 2 ELSE 0

\* The .string of a node as convert_to_numeric receives it.
StringOf(node) ==
    CASE node.k = "none" -> RawNone
      [] node.k = "text" -> RawText(node.chars)
      [] node.k = "label" -> [k |-> "label", chars |-> <<>>, name |-> node.name]

LabelsWithDigit == {"Problem #1 Comments", "Problem #2 Comments"}

\* convert_to_numeric on the .string of a node.  The text of a label holds a
\* digit only for the two 'Problem #n Comments' labels, and those begin with
\* a letter, which none of the patterns matches.
convert_string(str, field) ==
    IF str.k = "label"
    THEN IF str.name \in LabelsWithDigit THEN Raised("AttributeError")
         ELSE Returned(Absent)
    ELSE convert_to_numeric([k |-> str.k, chars |-> str.chars], field)

\* The try block of read_field_entry: the located .string, None when the
\* label or a sibling is missing.
LocateEntry(body, field) ==
    LET i == find(body, field)
        v == IF i = 0 THEN 0 ELSE NextNextSibling(body, i)
    IN  IF v = 0 THEN [k |-> "none", chars |-> <<>>, name |-> ""]
        ELSE [k |-> StringOf(body[v]).k, chars |-> StringOf(body[v]).chars,
              name |-> body[v].name]

read_field_entry(field, body) ==
    LET field_entry == LocateEntry(body, field)
    IN  IF field \in NUMERIC_FIELDS THEN convert_string(field_entry, field)
        ELSE Returned(field_entry)

FieldIdle ==
    /\ rfield = None
    /\ soup = [title |-> None, body |-> <<>>]
    /\ fieldread = [pc |-> "idle"]

FieldStart ==
    /\ rfield \in SchemaFields
    /\ soup \in [title : {None}, body : Bodies]
    /\ fieldread = [pc |-> "call"]

ReadFieldEntry ==
    /\ fieldread.pc = "call"
    /\ fieldread' = read_field_entry(rfield, soup.body)
    /\ UNCHANGED <<rfield, soup>>
    /\ UNCHANGED <<harvestVars, batchVars, numericVars, storeVars, classifyVars, roseVars,
                   recordVars, seasonVars, TODAY>>

\* The label is found and both siblings after its tag exist.
ChainResolves(body, field) ==
    /\ find(body, field) # 0
    /\ NextNextSibling(body, find(body, field)) # 0

\* C3: read_field_entry never raises to its caller, numeric fields included:
\* when the label is not found or the sibling chain does not resolve it
\* returns None.
C3_ReadFieldEntryNeverRaises ==
    /\ fieldread.pc # "raised"
    /\ (fieldread.pc = "returned" /\ ~ChainResolves(soup.body, rfield))
         => fieldread.value.k = "none"

(***************************************************************************)
(* IncrementalStore: save_data, load_data, update_data                     *)
(***************************************************************************)
MaxUpdates == 2

\* Day numbers stand for calendar dates: day 0 is the Epoch, chosen so that
\* a few days cross the end of a month and of a year.
Epoch == [year |-> 2023, month |-> 12, day |-> 30]

IsLeap(y) == (y % 4 = 0 /\ y % 100 # 0) \/ y % 400 = 0

DaysInMonth(y, m) ==
    CASE m \in {4, 6, 9, 11} -> 30
      [] m = 2 -> IF IsLeap(y) THEN 29 ELSE 28
      [] OTHER -> 31

\* date + datetime.timedelta(days=1)
NextDay(d) ==
    IF d.day < DaysInMonth(d.year, d.month)
    THEN [d EXCEPT !.day = d.day + 1]
    ELSE IF d.month < 12
    THEN [year |-> d.year, month |-> d.month + 1, day |-> 1]
    ELSE [year |-> d.year + 1, month |-> 1, day |-> 1]

RECURSIVE DateOf(_)
DateOf(n) == IF n = 0 THEN Epoch ELSE NextDay(DateOf(n - 1))

\* Text in file names is a sequence of tokens: the separator characters and
\* the words and numerals between them.
TwoDigits ==
    <<"01", "02", "03", "04", "05", "06", "07", "08", "09", "10",
      "11", "12", "13", "14", "15", "16", "17", "18", "19", "20",
      "21", "22", "23", "24", "25", "26", "27", "28", "29", "30", "31">>

Years == {2023, 2024}
YearStr(y) == CASE y = 2023 -> "2023" [] y = 2024 -> "2024"

\* str(date): YYYY-MM-DD
str_date(n) ==
    LET d == DateOf(n)
    IN  <<YearStr(d.year), "-", TwoDigits[d.month], "-", TwoDigits[d.day]>>

\* text.replace(old, new) for one-character old and new
replace(text, old, new) ==
    [i \in 1..Len(text) |-> IF text[i] = old THEN new ELSE text[i]]

\* text.split(sep): the pieces between the occurrences of sep
RECURSIVE split(_, _)
split(text, sep) ==
    IF \A i \in 1..Len(text) : text[i] # sep THEN <<text>>
    ELSE LET p == CHOOSE i \in 1..Len(text) :
                     text[i] = sep /\ \A j \in 1..(i - 1) : text[j] # sep
         IN  <<SubSeq(text, 1, p - 1)>> \o split(SubSeq(text, p + 1, Len(text)), sep)

Last(s) == s[Len(s)]

\* datetime.strptime(text, '%Y_%m_%d').date(): the day number, -1 for a
\* ValueError.
strptime(text) ==
    IF /\ Len(text) = 5
       /\ text[2] = "_"
       /\ text[4] = "_"
       /\ \E y \in Years : YearStr(y) = text[1]
       /\ \E m \in 1..12 : TwoDigits[m] = text[3]
       /\ \E d \in 1..31 : TwoDigits[d] = text[5]
    THEN LET date == [year |-> CHOOSE y \in Years : YearStr(y) = text[1],
                      month |-> CHOOSE m \in 1..12 : TwoDigits[m] = text[3],
                      day |-> CHOOSE d \in 1..31 : TwoDigits[d] = text[5]]
         IN  IF \E n \in 0..(MaxDay + 2) : DateOf(n) = date
             THEN CHOOSE n \in 0..(MaxDay + 2) : DateOf(n) = date
             ELSE -1
    ELSE -1

DataTypes == {"avalanche", "observations", "forecast"}
Regions == {"Salt Lake", "Logan"}

\* A data frame: rows of [kind, region, day]; the kind of a row says which
\* harvest produced it.
RowsFor(kind, region, first, last) ==
    [i \in 1..(last - first + 1) |-> [kind |-> kind, region |-> region, day |-> first + i - 1]]

MinDay(df) == CHOOSE d \in {df[i].day : i \in 1..Len(df)} :
                  \A i \in 1..Len(df) : d <= df[i].day
MaxDayOf(df) == CHOOSE d \in {df[i].day : i \in 1..Len(df)} :
                  \A i \in 1..Len(df) : df[i].day <= d

\* save_data(df, data_type) without a filename: the name it writes to.
save_data_filename(df, data_type) ==
    LET first == replace(str_date(MinDay(df)), "-", "_")
        last == replace(str_date(MaxDayOf(df)), "-", "_")
    IN  IF data_type = "forecast"
        THEN <<data_type, "@", df[1].region, "@">> \o first \o <<"&">> \o last \o <<".", "csv">>
        ELSE <<data_type, "@">> \o first \o <<"&">> \o last \o <<".", "csv">>

\* The record type the rows of a harvest have.
HarvestKind(function) ==
    CASE function = "get_forecasts" -> "forecast"
      [] function = "get_avalanche_data" -> "avalanche"
      [] function = "get_observation_data" -> "observations"

\* update_data(filename).  fs is the file system (name -> data frame), ok
\* says whether the harvest it calls returns.
update_data(filename, fs, today, ok) ==
    LET data_type == split(filename, "@")[1]
        forecast == data_type = <<".", "/", "forecast">>
        region == IF forecast THEN split(filename, "@")[2] ELSE <<>>
        start_text == split(Last(split(filename, "@")), "&")[1]
        end_text == split(split(Last(split(filename, "@")), "&")[2], ".")[1]
        old_data == fs[filename]
        end_plus_1 == strptime(end_text) + 1
        function == IF forecast THEN "get_forecasts"
                    ELSE IF data_type = <<".", "/", "avalanche">> THEN "get_avalanche_data"
                    ELSE "get_observation_data"
        call == [function |-> function, start_date |-> end_plus_1, end_date |-> today,
                 region |-> region]
        new_data == RowsFor(HarvestKind(function),
                            IF region = <<>> THEN "" ELSE region[1], end_plus_1, today)
        updated_data == old_data \o new_data
        new_end == replace(str_date(today), "-", "_")
        new_name == IF data_type = <<"forecast">>
                    THEN data_type \o <<"@">> \o region \o <<"@">> \o start_text
                           \o <<"&">> \o new_end \o <<".", "csv">>
                    ELSE data_type \o <<"@">> \o start_text \o <<"&">> \o new_end
                           \o <<".", "csv">>
    IN  IF strptime(end_text) = -1
        THEN [pc |-> "raised", value |-> <<>>, harvest |-> <<>>, written |-> <<>>, fs |-> fs]
        ELSE IF end_plus_1 = today
        THEN [pc |-> "returned", value |-> old_data, harvest |-> <<>>, written |-> <<>>,
              fs |-> fs]
        ELSE IF ~ok
        THEN [pc |-> "raised", value |-> <<>>, harvest |-> <<call>>, written |-> <<>>,
              fs |-> fs]
        ELSE [pc |-> "returned", value |-> updated_data, harvest |-> <<call>>,
              written |-> <<new_name>>,
              fs |-> [f \in DOMAIN fs \cup {new_name} |->
                        IF f = new_name THEN updated_data ELSE fs[f]]]

StoreIdle ==
    /\ files = <<>>
    /\ saved = [pc |-> "idle"]
    /\ dir_prefix = <<>>
    /\ harvest_ok = TRUE
    /\ updates = <<>>

StoreStart ==
    /\ files = <<>>
    /\ \E kind \in DataTypes, region \in Regions, first \in 0..MaxDay, last \in 0..MaxDay :
          /\ first <= last
          /\ last <= TODAY
          /\ kind # "forecast" => region = "Salt Lake"
          /\ saved = [pc |-> "data", data_type |-> kind,
                      df |-> RowsFor(kind, region, first, last), name |-> <<>>]
    /\ dir_prefix \in {<<>>, <<".", "/">>}
    /\ harvest_ok \in BOOLEAN
    /\ updates = <<>>

\* save_data(df, data_type=...) as main calls it.
SaveData ==
    /\ saved.pc = "data"
    /\ LET name == save_data_filename(saved.df, saved.data_type)
       IN  /\ saved' = [saved EXCEPT !.pc = "saved", !.name = name]
           /\ files' = [f \in {dir_prefix \o name} |-> saved.df]
    /\ UNCHANGED <<dir_prefix, harvest_ok, updates>>
    /\ UNCHANGED <<harvestVars, batchVars, numericVars, fieldVars, classifyVars, roseVars,
                   recordVars, seasonVars, TODAY>>

\* update_data(filename) on the file last written.
UpdateData ==
    /\ saved.pc = "saved"
    /\ Len(updates) < MaxUpdates
    /\ updates # <<>> => Last(updates).pc = "returned"
    /\ LET filename == IF updates = <<>> THEN dir_prefix \o saved.name
                       ELSE IF Last(updates).written = <<>> THEN Last(updates).filename
                       ELSE Last(updates).written[1]
           r == update_data(filename, files, TODAY, harvest_ok)
       IN  /\ updates' = Append(updates,
                                [pc |-> r.pc, filename |-> filename, value |-> r.value,
                                 harvest |-> r.harvest, written |-> r.written,
                                 before |-> files, after |-> r.fs])
           /\ files' = r.fs
    /\ UNCHANGED <<saved, dir_prefix, harvest_ok>>
    /\ UNCHANGED <<harvestVars, batchVars, numericVars, fieldVars, classifyVars, roseVars,
                   recordVars, seasonVars, TODAY>>

\* The key <record_type>@[<region>@]<start_date>&<end_date>.csv
KeyName(kind, region, first, last) ==
    <<kind, "@">> \o (IF kind = "forecast" THEN <<region, "@">> ELSE <<>>)
      \o replace(str_date(first), "-", "_") \o <<"&">>
      \o replace(str_date(last), "-", "_") \o <<".", "csv">>

\* C6: the dataset key survives the save_data -> update_data round trip:
\* update_data on the file save_data wrote harvests rows of the same record
\* type and region, and writes <record_type>@[<region>@]<start>&<today>.csv
\* with record type, region and start date unchanged.
C6_KeyRoundTrip ==
    (/\ Len(updates) >= 1
     /\ updates[1].pc = "returned"
     /\ updates[1].harvest # <<>>)
    => LET u == updates[1]
           kind == saved.data_type
           region == saved.df[1].region
       IN  /\ HarvestKind(u.harvest[1].function) = kind
           /\ kind = "forecast" => u.harvest[1].region = <<region>>
           /\ u.written = <<dir_prefix \o KeyName(kind, region, MinDay(saved.df), TODAY)>>

\* The end date a file name states.
KeyEndDate(filename) ==
    strptime(split(split(Last(split(filename, "@")), "&")[2], ".")[1])

\* C7: update_data is a no-op exactly when the stored key's end_date already
\* equals today: a call that returns has, then and only then, returned the
\* existing data unchanged, harvested nothing and written no file.
C7_NoOpExactlyAtToday ==
    \A i \in 1..Len(updates) :
        LET u == updates[i]
            noop == /\ u.pc = "returned"
                    /\ u.value = u.before[u.filename]
                    /\ u.harvest = <<>>
                    /\ u.written = <<>>
                    /\ u.after = u.before
        IN  u.pc = "returned" => (noop <=> (KeyEndDate(u.filename) = TODAY))

(***************************************************************************)
(* ColorClassifier: classify_danger, classify_presence                     *)
(***************************************************************************)
\* The palettes, in the order the dictionaries are written.
DangerColors ==
    << [category |-> 1, rgb |-> <<0, 255, 0>>],
       [category |-> 2, rgb |-> <<255, 255, 0>>],
       [category |-> 3, rgb |-> <<255, 128, 0>>],
       [category |-> 4, rgb |-> <<255, 0, 0>>],
       [category |-> 5, rgb |-> <<0, 0, 0>>] >>

PresenceColors ==
    << [category |-> "Present", rgb |-> <<102, 178, 255>>],
       [category |-> "Not Present", rgb |-> <<192, 192, 192>>] >>

Abs(x) == IF x < 0 THEN -x ELSE x

\* The distance as it would be with the blue term left out.
manhattan_no_blue(x, y) == Abs(x[1] - y[1]) + Abs(x[2] - y[2])
manhattan(x, y) == Abs(x[1] - y[1]) + Abs(x[2] - y[2]) + Abs(x[3] - y[3])

\* min(distances, key=distances.get): the keys are visited in the order of
\* the dictionary and a later key replaces the best one only when its
\* distance is strictly smaller.
RECURSIVE MinLastWins(_, _, _)
MinLastWins(colors, rgb_tuple, n) ==
    IF n = 1 THEN 1
    ELSE LET best == MinLastWins(colors, rgb_tuple, n - 1)
         IN  IF manhattan(colors[n].rgb, rgb_tuple) <= manhattan(colors[best].rgb, rgb_tuple)
             THEN n ELSE best

RECURSIVE MinFirstWins(_, _, _)
MinFirstWins(colors, rgb_tuple, n) ==
    IF n = 1 THEN 1
    ELSE LET best == MinFirstWins(colors, rgb_tuple, n - 1)
         IN  IF manhattan(colors[n].rgb, rgb_tuple) < manhattan(colors[best].rgb, rgb_tuple)
             THEN n ELSE best

min_by_distance(colors, rgb_tuple, n) == MinFirstWins(colors, rgb_tuple, n)

classify(colors, rgb_tuple) == colors[min_by_distance(colors, rgb_tuple, Len(colors))].category

classify_danger(rgb_tuple) == classify(DangerColors, rgb_tuple)
classify_presence(rgb_tuple) == classify(PresenceColors, rgb_tuple)

\* The component values samples are drawn from: the extremes, the palette's
\* own values, values half way between two of them, and others.
Levels ==
    {0, 10, 16, 32, 48, 64, 80, 96, 102, 112, 127, 128, 144, 147, 160, 176, 178, 185,
     192, 208, 224, 240, 250, 255}

ClassifyIdle ==
    /\ cfn = None
    /\ rgb = <<0, 0, 0>>
    /\ classified = [pc |-> "idle"]

ClassifyStart ==
    /\ cfn \in {"classify_danger", "classify_presence"}
    /\ rgb \in Levels \X Levels \X Levels
    /\ classified = [pc |-> "call"]

ClassifyDanger ==
    /\ cfn = "classify_danger"
    /\ classified.pc = "call"
    /\ classified' = [pc |-> "returned", danger |-> classify_danger(rgb), location |-> ""]
    /\ UNCHANGED <<cfn, rgb>>
    /\ UNCHANGED <<harvestVars, batchVars, numericVars, fieldVars, storeVars, roseVars,
                   recordVars, seasonVars, TODAY>>

ClassifyPresence ==
    /\ cfn = "classify_presence"
    /\ classified.pc = "call"
    /\ classified' = [pc |-> "returned", danger |-> 0, location |-> classify_presence(rgb)]
    /\ UNCHANGED <<cfn, rgb>>
    /\ UNCHANGED <<harvestVars, batchVars, numericVars, fieldVars, storeVars, roseVars,
                   recordVars, seasonVars, TODAY>>

\* The positions of the palette entries at minimal Manhattan distance.
Nearest(colors, sample) ==
    {i \in 1..Len(colors) :
        \A j \in 1..Len(colors) :
            Abs(colors[i].rgb[1] - sample[1]) + Abs(colors[i].rgb[2] - sample[2])
              + Abs(colors[i].rgb[3] - sample[3])
            <= Abs(colors[j].rgb[1] - sample[1]) + Abs(colors[j].rgb[2] - sample[2])
              + Abs(colors[j].rgb[3] - sample[3])}

Earliest(S) == CHOOSE i \in S : \A j \in S : i <= j

\* C9: classify_danger and classify_presence return a palette category at
\* minimal Manhattan distance from the sample, the earliest in palette order
\* when several are; (0,255,0) -> 1 and (250,250,10) -> 2.
C9_NearestEarliest ==
    classified.pc = "returned" =>
        /\ cfn = "classify_danger" =>
             /\ classified.danger = DangerColors[Earliest(Nearest(DangerColors, rgb))].category
             /\ rgb = <<0, 255, 0>> => classified.danger = 1
             /\ rgb = <<250, 250, 10>> => classified.danger = 2
        /\ cfn = "classify_presence" =>
             classified.location =
                 PresenceColors[Earliest(Nearest(PresenceColors, rgb))].category

\* A sample with two palette entries at the minimal distance, classified.
C9_Witness ==
    /\ classified.pc = "returned"
    /\ cfn = "classify_danger"
    /\ Cardinality(Nearest(DangerColors, rgb)) = 2
    /\ classified.danger = 3

\* The palette of the classifier that was called.
PaletteOf(function) ==
    IF function = "classify_danger" THEN DangerColors ELSE PresenceColors

\* C16 as stated: the tie-break rule is never exercised: for every sample
\* exactly one entry of the danger palette, and exactly one entry of the
\* presence palette, is at minimal Manhattan distance.
C16_TieNeverOccurs ==
    classified.pc = "returned" => Cardinality(Nearest(PaletteOf(cfn), rgb)) = 1

\* C16 amended: the two distances classify_presence compares are never
\* equal, so its tie-break is never exercised and it returns the strictly
\* nearer entry; classify_danger does meet equidistant entries, and there it
\* returns the one that comes first in the palette.
C16_PresenceNeverTies ==
    classified.pc = "returned" =>
        /\ cfn = "classify_presence" =>
             LET present == manhattan(PresenceColors[1].rgb, rgb)
                 absent == manhattan(PresenceColors[2].rgb, rgb)
             IN  /\ present # absent
                 /\ classified.location = "Present" <=> present < absent
        /\ cfn = "classify_danger" =>
             \A i, j \in 1..Len(DangerColors) :
                 (/\ i < j
                  /\ manhattan(DangerColors[i].rgb, rgb) = manhattan(DangerColors[j].rgb, rgb))
                 => classified.danger # DangerColors[j].category

\* A presence sample whose two distances differ by one, classified.
C16_Witness ==
    /\ classified.pc = "returned"
    /\ cfn = "classify_presence"
    /\ manhattan(PresenceColors[2].rgb, rgb) = manhattan(PresenceColors[1].rgb, rgb) + 1
    /\ classified.location = "Present"

(***************************************************************************)
(* RoseDecoder: get_danger_rose, get_location_rose                         *)
(***************************************************************************)
Aspects == {"N", "NE", "E", "SE", "S", "SW", "W", "NW"}
Elevations == {"Low", "Mid", "High"}

Coord(aspect, elevation, x, y) ==
    [region |-> <<aspect, elevation>>, x |-> x, y |-> y]

\* rose_coord of get_danger_rose, in the order it is written.
rose_coord ==
    << Coord("N", "High", 200, 130), Coord("NE", "High", 225, 135),
       Coord("NW", "High", 175, 135), Coord("W", "High", 165, 155),
       Coord("E", "High", 235, 155), Coord("SW", "High", 175, 175),
       Coord("S", "High", 200, 185), Coord("SE", "High", 225, 175),
       Coord("N", "Mid", 200, 100), Coord("NE", "Mid", 250, 115),
       Coord("NW", "Mid", 150, 115), Coord("W", "Mid", 125, 165),
       Coord("E", "Mid", 275, 165), Coord("SW", "Mid", 145, 215),
       Coord("S", "Mid", 200, 230), Coord("SE", "Mid", 255, 215),
       Coord("N", "Low", 200, 65), Coord("NE", "Low", 280, 100),
       Coord("NW", "Low", 120, 100), Coord("W", "Low", 75, 170),
       Coord("E", "Low", 325, 170), Coord("SW", "Low", 110, 250),
       Coord("S", "Low", 200, 280), Coord("SE", "Low", 290, 250) >>

\* The transform of get_location_rose: every coordinate moved by (+30, +10).
transformed_coord ==
    [i \in 1..Len(rose_coord) |->
        [rose_coord[i] EXCEPT !.x = rose_coord[i].x + 30, !.y = rose_coord[i].y + 10]]

\* An image: its size and how it is painted.  A painting gives every pixel
\* one colour, or colours the image in vertical or horizontal bands of the
\* palette colours.
Paintings == {"green", "red", "blue", "grey", "danger bands", "presence bands"}
ImageSizes == {<<400, 300>>, <<340, 300>>, <<400, 285>>, <<330, 285>>, <<200, 200>>, <<0, 0>>}

Images == [size : ImageSizes, painting : Paintings]

PixelOf(image, x, y) ==
    CASE image.painting = "green" -> <<5, 250, 6>>
      [] image.painting = "red" -> <<250, 10, 10>>
      [] image.painting = "blue" -> <<100, 180, 250>>
      [] image.painting = "grey" -> <<190, 190, 190>>
      [] image.painting = "danger bands" -> DangerColors[((x \div 50) % 5) + 1].rgb
      [] image.painting = "presence bands" -> PresenceColors[((y \div 50) % 2) + 1].rgb

\* pix[x, y]: an IndexError outside the image.
InImage(image, x, y) == x < image.size[1] /\ y < image.size[2]

\* The for loop over rose_coord: every region is classified, and a sample
\* that fails ends the loop with its exception; a region written twice keeps
\* its last value.
RECURSIVE DecodeSkipping(_, _, _, _)
DecodeSkipping(coords, image, palette, n) ==
    IF n = 0 THEN [ok |-> TRUE, rose |-> <<>>]
    ELSE LET before == DecodeSkipping(coords, image, palette, n - 1)
             c == coords[n]
         IN  IF ~InImage(image, c.x, c.y) THEN before
             ELSE [ok |-> TRUE,
                   rose |-> [r \in DOMAIN before.rose \cup {c.region} |->
                               IF r = c.region
                               THEN classify(palette, PixelOf(image, c.x, c.y))
                               ELSE before.rose[r]]]

RECURSIVE DecodeAll(_, _, _, _)
DecodeAll(coords, image, palette, n) ==
    IF n = 0 THEN [ok |-> TRUE, rose |-> <<>>]
    ELSE LET before == DecodeAll(coords, image, palette, n - 1)
             c == coords[n]
         IN  IF ~before.ok THEN before
             ELSE IF ~InImage(image, c.x, c.y) THEN [ok |-> FALSE, rose |-> <<>>]
             ELSE [ok |-> TRUE,
                   rose |-> [r \in DOMAIN before.rose \cup {c.region} |->
                               IF r = c.region
                               THEN classify(palette, PixelOf(image, c.x, c.y))
                               ELSE before.rose[r]]]

decode_rose(coords, image, palette, n) == DecodeAll(coords, image, palette, n)

RoseReturned(has, map) == [pc |-> "returned", has_rose |-> has, rose |-> map, exc |-> None]
RoseRaised(e) == [pc |-> "raised", has_rose |-> FALSE, rose |-> <<>>, exc |-> e]

\* get_danger_rose(forecast_url): (None, None) when the rose URL cannot be
\* read off the forecast page; what Image.open or a pixel sample raises is
\* not caught.
get_danger_rose(url_found, opens, image) ==
    IF ~url_found THEN RoseReturned(FALSE, <<>>)
    ELSE IF ~opens THEN RoseRaised("OSError")
    ELSE LET d == decode_rose(rose_coord, image, DangerColors, Len(rose_coord))
         IN  IF d.ok THEN RoseReturned(TRUE, d.rose) ELSE RoseRaised("IndexError")

\* get_location_rose(img_url)
get_location_rose(opens, image) ==
    IF ~opens THEN RoseRaised("OSError")
    ELSE LET d == decode_rose(transformed_coord, image, PresenceColors,
                              Len(transformed_coord))
         IN  IF d.ok THEN RoseReturned(TRUE, d.rose) ELSE RoseRaised("IndexError")

RoseIdle ==
    /\ rfn = None
    /\ rose_url_found = TRUE
    /\ image_opens = TRUE
    /\ rose_img = [size |-> <<0, 0>>, painting |-> "grey"]
    /\ rose = [pc |-> "idle"]

RoseStart ==
    /\ rfn \in {"get_danger_rose", "get_location_rose"}
    /\ rose_url_found \in BOOLEAN
    /\ image_opens \in BOOLEAN
    /\ rose_img \in Images
    /\ rose = [pc |-> "call"]

GetDangerRose ==
    /\ rfn = "get_danger_rose"
    /\ rose.pc = "call"
    /\ rose' = get_danger_rose(rose_url_found, image_opens, rose_img)
    /\ UNCHANGED <<rfn, rose_url_found, image_opens, rose_img>>
    /\ UNCHANGED <<harvestVars, batchVars, numericVars, fieldVars, storeVars, classifyVars,
                   recordVars, seasonVars, TODAY>>

GetLocationRose ==
    /\ rfn = "get_location_rose"
    /\ rose.pc = "call"
    /\ rose' = get_location_rose(image_opens, rose_img)
    /\ UNCHANGED <<rfn, rose_url_found, image_opens, rose_img>>
    /\ UNCHANGED <<harvestVars, batchVars, numericVars, fieldVars, storeVars, classifyVars,
                   recordVars, seasonVars, TODAY>>

\* C8: rose decoding is all-or-nothing: a call that returns a map returns one
\* whose keys are exactly the 24 (aspect, elevation) pairs, each with a
\* category of its palette; a failed fetch or pixel sample gives no map
\* (None, or an exception), never fewer than 24 keys.
C8_RoseAllOrNothing ==
    /\ rose.pc = "returned" /\ rose.has_rose =>
         /\ DOMAIN rose.rose = Aspects \X Elevations
         /\ Cardinality(DOMAIN rose.rose) = 24
         /\ rfn = "get_danger_rose" => \A r \in DOMAIN rose.rose : rose.rose[r] \in 1..5
         /\ rfn = "get_location_rose" =>
              \A r \in DOMAIN rose.rose : rose.rose[r] \in {"Present", "Not Present"}
    /\ rose.pc = "returned" /\ ~rose.has_rose => rose.rose = <<>>
    /\ rose.pc = "raised" => rose.rose = <<>>
    /\ (/\ rose.pc \in {"returned", "raised"}
        /\ \/ ~image_opens
           \/ \E i \in 1..Len(rose_coord) :
                 LET c == IF rfn = "get_location_rose" THEN transformed_coord[i]
                          ELSE rose_coord[i]
                 IN  ~(c.x < rose_img.size[1] /\ c.y < rose_img.size[2]))
         => ~(rose.pc = "returned" /\ rose.has_rose)

\* A rose decoded from an image painted in bands: all 24 keys, more than one
\* category.
C8_Witness ==
    /\ rose.pc = "returned"
    /\ rose.has_rose
    /\ rfn = "get_location_rose"
    /\ Cardinality(DOMAIN rose.rose) = 24
    /\ Cardinality({rose.rose[r] : r \in DOMAIN rose.rose}) = 2

(***************************************************************************)
(* RecordExtractor: read_avalanche_observation, read_general_observation   *)
(***************************************************************************)
MULTI_ENTRY_FIELDS == {"Red Flags", "Snow Surface Conditions"}

\* len(text) of a label.
LabelLen(name) ==
    CASE name = "Sky" -> 3
      [] name \in {"Trend", "Depth", "Width"} -> 5
      [] name \in {"Region", "Aspect"} -> 6
      [] name \in {"Problem", "Trigger", "Carried"} -> 7
      [] name = "Comments" -> 8
      [] name \in {"Red Flags", "Elevation"} -> 9
      [] name = "Wind Speed" -> 10
      [] name = "Slope Angle" -> 11
      [] name = "Snow Profile" -> 12
      [] name = "Observer Name" -> 13
      [] name \in {"Wind Direction", "New Snow Depth"} -> 14
      [] name \in {"Observation Date", "Weather Comments", "New Snow Density"} -> 16
      [] name = "Red Flags Comments" -> 18
      [] name \in {"Problem #1 Comments", "Problem #2 Comments"} -> 19
      [] name = "Location Name or Route" -> 22
      [] name = "Snow Surface Conditions" -> 23
      [] name = "Snow Characteristics Comments" -> 29

StrLen(str) == IF str.k = "label" THEN LabelLen(str.name) ELSE Len(str.chars)

EntryOf(node) == [k |-> StringOf(node).k, chars |-> node.chars, name |-> node.name]
NoEntry == [k |-> "none", chars |-> <<>>, name |-> ""]

\* soup.find_all(string=field)[1]: the position of the second node whose
\* string is the label, 0 when there are fewer than two (an IndexError).
find_second(body, field) ==
    LET hits == {i \in 1..Len(body) : body[i] = LabelNode(field)}
    IN  IF Cardinality(hits) < 2 THEN 0
        ELSE CHOOSE i \in hits : Cardinality({j \in hits : j < i}) = 1

\* The while loop of read_multiple_entries from the entry at position cur
\* (0 for None).
RECURSIVE ReadEntries(_, _, _)
ReadEntries(body, cur, field_entries) ==
    IF cur = 0 THEN Raised("AttributeError")
    ELSE IF cur + 1 > Len(body) THEN Raised("AttributeError")
    ELSE IF cur + 2 > Len(body) THEN Raised("AttributeError")
    ELSE IF body[cur + 2].k = "none" THEN Raised("TypeError")
    ELSE IF StrLen(EntryOf(body[cur + 2])) > 20
    THEN Returned([k |-> "list", items |-> Append(field_entries, EntryOf(body[cur]))])
    ELSE ReadEntries(body, cur + 2, Append(field_entries, EntryOf(body[cur])))

read_multiple_entries(field, body) ==
    LET anchor == IF field = "Red Flags" THEN find_second(body, field)
                  ELSE find(body, field)
    IN  IF anchor = 0
        THEN Raised(IF field = "Red Flags" THEN "IndexError" ELSE "AttributeError")
        ELSE IF anchor + 1 > Len(body) THEN Raised("AttributeError")
        ELSE ReadEntries(body, NextNextSibling(body, anchor), <<>>)

\* The title of the page: the element of class page-title is missing, or its
\* .string is None, or it is a text, kept as the tokens around its colons.
TitleMissing == [k |-> "missing", text |-> <<>>]
TitleNoString == [k |-> "none", text |-> <<>>]
TitleText(t) == [k |-> "text", text |-> t]

Titles ==
    { TitleMissing, TitleNoString,
      TitleText(<<"Avalanche", ":", "Cardiff Fork">>),
      TitleText(<<"Observation", ":", "Cardiff Fork">>),
      TitleText(<<"Accident", ":", "Cardiff Fork">>),
      TitleText(<<"Cardiff Fork">>),
      TitleText(<<>>) }

\* observation_title.split(':')[0]
TitlePrefix(title) == split(title.text, ":")[1]

\* One field of read_avalanche_observation: the located string, converted if
\* the field is numeric, None for whatever the try block raises.
AvalancheDatum(field, body) ==
    LET entry == LocateEntry(body, field)
    IN  IF entry.k = "none" /\ ~ChainResolves(body, field) THEN NoEntry
        ELSE IF field \in NUMERIC_FIELDS
        THEN LET r == convert_string(entry, field)
             IN  IF r.pc = "raised" THEN NoEntry ELSE r.value
        ELSE entry

\* One field of read_general_observation.
GeneralEntry(field, body) ==
    LET r == IF field \in MULTI_ENTRY_FIELDS THEN read_multiple_entries(field, body)
             ELSE read_field_entry(field, body)
    IN  IF r.pc = "raised" THEN NoEntry ELSE r.value

\* The for loops over the fields: the dictionary after the first n fields.
RECURSIVE AvalancheFields(_, _, _)
AvalancheFields(fields, body, n) ==
    IF n = 0 THEN <<>>
    ELSE LET before == AvalancheFields(fields, body, n - 1)
         IN  [f \in DOMAIN before \cup {fields[n]} |->
                IF f = fields[n] THEN AvalancheDatum(f, body) ELSE before[f]]

\* The loop as it would be with the try around the whole loop: the first
\* failing field ends it.
RECURSIVE GeneralFieldsAbort(_, _, _)
GeneralFieldsAbort(fields, body, n) ==
    IF n = 0 THEN <<>>
    ELSE LET before == GeneralFieldsAbort(fields, body, n - 1)
             failed == \E i \in 1..n :
                         (IF fields[i] \in MULTI_ENTRY_FIELDS
                          THEN read_multiple_entries(fields[i], body)
                          ELSE read_field_entry(fields[i], body)).pc = "raised"
         IN  IF failed THEN before
             ELSE [f \in DOMAIN before \cup {fields[n]} |->
                     IF f = fields[n] THEN GeneralEntry(f, body) ELSE before[f]]

RECURSIVE GeneralFields(_, _, _)
GeneralFields(fields, body, n) ==
    IF n = 0 THEN <<>>
    ELSE LET before == GeneralFields(fields, body, n - 1)
         IN  [f \in DOMAIN before \cup {fields[n]} |->
                IF f = fields[n] THEN GeneralEntry(f, body) ELSE before[f]]

RECURSIVE AllGroupFields(_)
AllGroupFields(n) ==
    IF n = 0 THEN <<>> ELSE AllGroupFields(n - 1) \o FIELDS_DICT(FieldGroups[n])

AvalancheReportFields ==
    <<"Observer Name", "Observation Date", "Region", "Location Name or Route",
      "Snow Profile", "Comments">>
      \o <<"Elevation", "Aspect", "Trigger", "Depth", "Width", "Carried">>

\* read_avalanche_observation(url)
read_avalanche_observation(fetched, doc) ==
    IF ~fetched THEN Raised("ConnectionError")
    ELSE IF doc.title.k = "missing" THEN Raised("AttributeError")
    ELSE IF doc.title.k = "none" THEN Raised("AttributeError")
    ELSE IF TitlePrefix(doc.title) = <<"Avalanche">>
    THEN Returned(AvalancheFields(AvalancheReportFields, doc.body,
                                  Len(AvalancheReportFields)))
    ELSE Returned(<<>>)

\* read_general_observation(url)
read_general_observation(fetched, doc) ==
    IF ~fetched THEN Raised("ConnectionError")
    ELSE IF doc.title.k = "missing" THEN Raised("AttributeError")
    ELSE Returned(GeneralFields(AllGroupFields(Len(FieldGroups)), doc.body,
                                Len(AllGroupFields(Len(FieldGroups)))))

RecordIdle ==
    /\ xfn = None
    /\ page_fetched = TRUE
    /\ record = [pc |-> "idle"]

RecordStart ==
    /\ xfn \in {"read_avalanche_observation", "read_general_observation"}
    /\ page_fetched \in BOOLEAN
    /\ soup \in [title : Titles, body : Bodies]
    /\ rfield = None
    /\ fieldread = [pc |-> "idle"]
    /\ record = [pc |-> "call"]

ReadAvalancheObservation ==
    /\ xfn = "read_avalanche_observation"
    /\ record.pc = "call"
    /\ record' = read_avalanche_observation(page_fetched, soup)
    /\ UNCHANGED <<xfn, page_fetched>>
    /\ UNCHANGED <<harvestVars, batchVars, numericVars, fieldVars, storeVars, classifyVars,
                   roseVars, seasonVars, TODAY>>

ReadGeneralObservation ==
    /\ xfn = "read_general_observation"
    /\ record.pc = "call"
    /\ record' = read_general_observation(page_fetched, soup)
    /\ UNCHANGED <<xfn, page_fetched>>
    /\ UNCHANGED <<harvestVars, batchVars, numericVars, fieldVars, storeVars, classifyVars,
                   roseVars, seasonVars, TODAY>>

\* The title has a prefix before its first colon that names a record type.
RecognizedPrefix(title) ==
    /\ title.k = "text"
    /\ split(title.text, ":")[1] \in {<<"Avalanche">>, <<"Observation">>}

\* C10: on a fetched document whose title prefix is not a recognized type,
\* the title element missing included, read_avalanche_observation and
\* read_general_observation return an empty record and raise nothing.
C10_UnrecognizedTitleGivesEmptyRecord ==
    (/\ record.pc \in {"returned", "raised"}
     /\ page_fetched
     /\ ~RecognizedPrefix(soup.title))
    => /\ record.pc = "returned"
       /\ DOMAIN record.value = {}

\* The field names a reader iterates over.
IteratedSchema(function) ==
    IF function = "read_general_observation" THEN SchemaFields
    ELSE {AvalancheReportFields[i] : i \in 1..Len(AvalancheReportFields)}

\* One field read on its own: its value, None when the read fails.
IsolatedRead(function, field, body) ==
    IF function = "read_general_observation" THEN GeneralEntry(field, body)
    ELSE AvalancheDatum(field, body)

\* The read of the field inside the try block raises.
ReadFails(function, field, body) ==
    IF function = "read_general_observation"
    THEN (IF field \in MULTI_ENTRY_FIELDS THEN read_multiple_entries(field, body)
          ELSE read_field_entry(field, body)).pc = "raised"
    ELSE \/ ~ChainResolves(body, field)
         \/ /\ field \in NUMERIC_FIELDS
            /\ convert_string(LocateEntry(body, field), field).pc = "raised"

\* The reader went through its fields: read_general_observation always,
\* read_avalanche_observation on a title with prefix Avalanche.
IteratesFields ==
    /\ record.pc = "returned"
    /\ \/ xfn = "read_general_observation"
       \/ /\ xfn = "read_avalanche_observation"
          /\ TitlePrefix(soup.title) = <<"Avalanche">>

\* C11: a read failure for one field never aborts the remaining fields: the
\* returned record has a key for every field name of the iterated schema,
\* a failing field is mapped to None and a succeeding field to its value.
C11_FailureDoesNotAbortRemainingFields ==
    IteratesFields
    => /\ DOMAIN record.value = IteratedSchema(xfn)
       /\ \A f \in IteratedSchema(xfn) :
            /\ ReadFails(xfn, f, soup.body) => record.value[f] = NoEntry
            /\ ~ReadFails(xfn, f, soup.body)
                 => record.value[f] = IsolatedRead(xfn, f, soup.body)

\* A general observation where the reads of New Snow Depth and Red Flags
\* raise and the later field Aspect is read.
C11_Witness ==
    /\ IteratesFields
    /\ xfn = "read_general_observation"
    /\ ReadFails(xfn, "New Snow Depth", soup.body)
    /\ ReadFails(xfn, "Red Flags", soup.body)
    /\ ~ReadFails(xfn, "Aspect", soup.body)
    /\ record.value["Aspect"].k = "text"

(***************************************************************************)
(* FieldReader: read_multiple_entries on its own                           *)
(***************************************************************************)
MaxEntryNodes == 5

\* A text of n characters.
TextOfLen(n) == [i \in 1..n |-> "a"]

\* The siblings read_multiple_entries walks over: the two multi-entry labels
\* (9 and 23 characters), a line break, texts of 20 and 21 characters and a
\* tag whose .string is None.
EntryNodes ==
    { LabelNode("Red Flags"), LabelNode("Snow Surface Conditions"),
      TextNode(<<"\n">>), TextNode(TextOfLen(20)), TextNode(TextOfLen(21)),
      NoStringNode }

EntryBodies == SeqsUpTo(EntryNodes, MaxEntryNodes)

EntriesStart ==
    /\ xfn = "read_multiple_entries"
    /\ page_fetched = TRUE
    /\ rfield \in MULTI_ENTRY_FIELDS
    /\ soup \in [title : {TitleNoString}, body : EntryBodies]
    /\ fieldread = [pc |-> "idle"]
    /\ record = [pc |-> "call"]

ReadMultipleEntries ==
    /\ xfn = "read_multiple_entries"
    /\ record.pc = "call"
    /\ record' = read_multiple_entries(rfield, soup.body)
    /\ UNCHANGED <<xfn, page_fetched>>
    /\ UNCHANGED <<harvestVars, batchVars, numericVars, fieldVars, storeVars, classifyVars,
                   roseVars, seasonVars, TODAY>>

\* The position of the anchor label: the second occurrence for Red Flags,
\* the first otherwise.
AnchorOf(field, body) ==
    IF field = "Red Flags" THEN find_second(body, field) ELSE find(body, field)

\* The positions of the value nodes: two, four, ... siblings after the anchor.
ValuePositions(field, body) ==
    {p \in 1..Len(body) : p > AnchorOf(field, body) /\ (p - AnchorOf(field, body)) % 2 = 0}

\* The value nodes that come before the first one whose text is longer than
\* 20 characters.
BeforeFirstLong(field, body) ==
    {p \in ValuePositions(field, body) :
        \A q \in ValuePositions(field, body) :
            q <= p => (body[q].k = "none" \/ StrLen(EntryOf(body[q])) <= 20)}

\* C12: read_multiple_entries returns, in document order, exactly the texts
\* of the value nodes that come before the first text longer than 20
\* characters; a text of more than 20 characters is never collected.
C12_EntriesBeforeFirstLongText ==
    (xfn = "read_multiple_entries" /\ record.pc = "returned")
    => LET items == record.value.items
           expected == BeforeFirstLong(rfield, soup.body)
       IN  /\ Len(items) = Cardinality(expected)
           /\ \A i \in 1..Len(items) :
                /\ StrLen(items[i]) <= 20
                /\ AnchorOf(rfield, soup.body) + 2 * i \in expected
                /\ items[i] = EntryOf(soup.body[AnchorOf(rfield, soup.body) + 2 * i])

(***************************************************************************)
(* ScaleReader: measure_likelihood, measure_size                           *)
(***************************************************************************)
\* scale_coord of the two readers, in dictionary order.
ScaleLevel(label, factor, x, y) == [label |-> label, factor |-> factor, x |-> x, y |-> y]

likelihood_coord ==
    << ScaleLevel("Certain", 5, 35, 9), ScaleLevel("Very Likely", 4, 35, 68),
       ScaleLevel("Likely", 3, 35, 125), ScaleLevel("Somewhat Likely", 2, 35, 183),
       ScaleLevel("Unlikely", 1, 35, 241) >>

size_coord ==
    << ScaleLevel("Large", 5, 35, 9), ScaleLevel("Medium-Large", 4, 35, 68),
       ScaleLevel("Medium", 3, 35, 125), ScaleLevel("Medium-Small", 2, 35, 183),
       ScaleLevel("Small", 1, 35, 241) >>

scale_coord(function) ==
    IF function = "measure_likelihood" THEN likelihood_coord ELSE size_coord

\* A scale image: its size and the colour of its bar at each of the five
\* levels.
ScaleColors == {"blue", "grey", "white"}
ScaleSizes == {<<70, 250>>, <<70, 200>>, <<70, 100>>, <<30, 250>>, <<0, 0>>}
ScaleImages == [size : ScaleSizes, painting : [1..5 -> ScaleColors]]

\* pix[x, y][0:3] of a scale image at the coordinate of a level.
ScalePixel(image, level) ==
    CASE image.painting[level.factor] = "blue" -> <<100, 180, 250>>
      [] image.painting[level.factor] = "grey" -> <<190, 190, 190>>
      [] image.painting[level.factor] = "white" -> <<255, 255, 255>>

NoReading == [label |-> None, factor |-> 0]
Reading(level) == [label |-> level.label, factor |-> level.factor]

Scanning(examined) ==
    [pc |-> "scanning", value |-> NoReading, examined |-> examined, exc |-> None]
ScaleReturned(v, examined) ==
    [pc |-> "returned", value |-> v, examined |-> examined, exc |-> None]
ScaleRaised(e, examined) ==
    [pc |-> "raised", value |-> NoReading, examined |-> examined, exc |-> e]

\* The scan as it would be without the return inside the loop: the last
\* level that classifies Present wins.
RECURSIVE ScanLastPresent(_, _, _)
ScanLastPresent(coords, image, n) ==
    IF n = 0 THEN Scanning(<<>>)
    ELSE LET before == ScanLastPresent(coords, image, n - 1)
             level == coords[n]
         IN  IF before.pc = "raised" THEN before
             ELSE IF ~InImage(image, level.x, level.y)
             THEN ScaleRaised("IndexError", before.examined)
             ELSE IF classify_presence(ScalePixel(image, level)) = "Present"
             THEN ScaleReturned(Reading(level), Append(before.examined, level.factor))
             ELSE [before EXCEPT !.examined = Append(before.examined, level.factor)]

\* The for loop over scale_coord after its first n levels: it returns at
\* the first level that classifies Present, and a sample outside the image
\* ends it with an IndexError.
RECURSIVE ScanFirstPresent(_, _, _)
ScanFirstPresent(coords, image, n) ==
    IF n = 0 THEN Scanning(<<>>)
    ELSE LET before == ScanFirstPresent(coords, image, n - 1)
             level == coords[n]
         IN  IF before.pc # "scanning" THEN before
             ELSE IF ~InImage(image, level.x, level.y)
             THEN ScaleRaised("IndexError", before.examined)
             ELSE IF classify_presence(ScalePixel(image, level)) = "Present"
             THEN ScaleReturned(Reading(level), Append(before.examined, level.factor))
             ELSE Scanning(Append(before.examined, level.factor))

scan_scale(coords, image, n) == ScanFirstPresent(coords, image, n)

\* measure_likelihood(img_url) and measure_size(img_url): None when the loop
\* ends without a return.
measure_scale(function, opens, image) ==
    IF ~opens THEN ScaleRaised("OSError", <<>>)
    ELSE LET r == scan_scale(scale_coord(function), image, Len(scale_coord(function)))
         IN  IF r.pc = "scanning" THEN ScaleReturned(NoReading, r.examined) ELSE r

measure_likelihood(opens, image) == measure_scale("measure_likelihood", opens, image)
measure_size(opens, image) == measure_scale("measure_size", opens, image)

ScaleStart ==
    /\ rfn \in {"measure_likelihood", "measure_size"}
    /\ rose_url_found = TRUE
    /\ image_opens \in BOOLEAN
    /\ rose_img \in ScaleImages
    /\ rose = [pc |-> "call"]

MeasureLikelihood ==
    /\ rfn = "measure_likelihood"
    /\ rose.pc = "call"
    /\ rose' = measure_likelihood(image_opens, rose_img)
    /\ UNCHANGED <<rfn, rose_url_found, image_opens, rose_img>>
    /\ UNCHANGED <<harvestVars, batchVars, numericVars, fieldVars, storeVars, classifyVars,
                   recordVars, seasonVars, TODAY>>

MeasureSize ==
    /\ rfn = "measure_size"
    /\ rose.pc = "call"
    /\ rose' = measure_size(image_opens, rose_img)
    /\ UNCHANGED <<rfn, rose_url_found, image_opens, rose_img>>
    /\ UNCHANGED <<harvestVars, batchVars, numericVars, fieldVars, storeVars, classifyVars,
                   recordVars, seasonVars, TODAY>>

\* The levels of the image that classify Present.
PresentLevels(image) ==
    {f \in 1..5 :
        classify_presence(ScalePixel(image, [factor |-> f])) = "Present"}

\* The levels n, n - 1, ..., m in that order.
Descending(n, m) == [i \in 1..(n - m + 1) |-> n + 1 - i]

\* C13: measure_likelihood and measure_size examine the levels from ordinal
\* 5 down to ordinal 1 and return the (label, ordinal) of the first one that
\* classifies Present, examining no lower level after it; when no level
\* classifies Present the result is None, never the lowest level.
C13_HighestPresentLevel ==
    (rfn \in {"measure_likelihood", "measure_size"} /\ rose.pc = "returned")
    => LET present == PresentLevels(rose_img)
       IN  /\ present # {} =>
                LET top == CHOOSE f \in present : \A g \in present : g <= f
                IN  /\ rose.value = Reading(scale_coord(rfn)[6 - top])
                    /\ rose.examined = Descending(5, top)
           /\ present = {} =>
                /\ rose.value = NoReading
                /\ rose.examined = Descending(5, 1)

\* A reading of a level above a lower level that is Present too and lies
\* outside a cropped image.
C13_Witness ==
    /\ rfn = "measure_size"
    /\ rose.pc = "returned"
    /\ rose.value = [label |-> "Medium", factor |-> 3]
    /\ 1 \in PresentLevels(rose_img)
    /\ ~InImage(rose_img, 35, 241)

(***************************************************************************)
(* Season: get_season_start                                                *)
(***************************************************************************)
\* The calendar dates of the years of the model.
Dates ==
    {d \in [year : Years, month : 1..12, day : 1..31] :
        d.day <= DaysInMonth(d.year, d.month)}

\* datetime.date(year, month, day)
Date(year, month, day) == [year |-> year, month |-> month, day |-> day]

\* date comparison
DateLE(a, b) ==
    \/ a.year < b.year
    \/ a.year = b.year /\ a.month < b.month
    \/ a.year = b.year /\ a.month = b.month /\ a.day <= b.day

DateLT(a, b) == DateLE(a, b) /\ a # b

\* get_season_start(date)
get_season_start(date) ==
    LET start_day == 1
        start_month == 8
        start_year == IF date.month < 7 THEN date.year - 1 ELSE date.year
    IN  Date(start_year, start_month, start_day)

SeasonIdle ==
    /\ season_date = Epoch
    /\ season_start = [pc |-> "idle"]

SeasonStart ==
    /\ season_date \in Dates
    /\ season_start = [pc |-> "call"]

GetSeasonStart ==
    /\ season_start.pc = "call"
    /\ season_start' = Returned(get_season_start(season_date))
    /\ UNCHANGED season_date
    /\ UNCHANGED <<harvestVars, batchVars, numericVars, fieldVars, storeVars, classifyVars,
                   roseVars, recordVars, TODAY>>

\* C18: get_season_start(d) is the most recent August 1 on or before d: the
\* result is never later than d, and d is earlier than the August 1 of the
\* following year.
C18_SeasonStartOnOrBefore ==
    season_start.pc = "returned" =>
        LET s == season_start.value
        IN  /\ s.month = 8 /\ s.day = 1
            /\ DateLE(s, season_date)
            /\ DateLT(season_date, Date(s.year + 1, 8, 1))

(***************************************************************************)
(* Specifications                                                          *)
(***************************************************************************)
\* TODAY is set when the module is imported; a specification that does not
\* read it fixes it at day 0.
HarvestNext == get_observation_table \/ get_obs
HarvestInit ==
    /\ SeasonIdle /\ HarvestStart /\ BatchIdle /\ NumericIdle /\ FieldIdle /\ StoreIdle
    /\ ClassifyIdle /\ RoseIdle /\ RecordIdle /\ TODAY = 0
SpecHarvest == HarvestInit /\ [][HarvestNext]_vars

\* The loop is the only thing the calling thread does, so an iteration that
\* can run does run.
SpecHarvestFair == HarvestInit /\ [][HarvestNext]_vars /\ WF_vars(HarvestNext)

BatchNext == get_avalanche_data \/ get_observation_data \/ get_forecasts
BatchInit ==
    /\ SeasonIdle /\ BatchStart /\ HarvestIdle /\ NumericIdle /\ FieldIdle /\ StoreIdle
    /\ ClassifyIdle /\ RoseIdle /\ RecordIdle
SpecBatch == BatchInit /\ [][BatchNext]_vars

NumericNext == ConvertToNumeric
NumericInit ==
    /\ SeasonIdle /\ NumericStart /\ HarvestIdle /\ BatchIdle /\ FieldIdle /\ StoreIdle
    /\ ClassifyIdle /\ RoseIdle /\ RecordIdle /\ TODAY = 0
SpecNumeric == NumericInit /\ [][NumericNext]_vars

FieldNext == ReadFieldEntry
FieldInit ==
    /\ SeasonIdle /\ FieldStart /\ HarvestIdle /\ BatchIdle /\ NumericIdle /\ StoreIdle
    /\ ClassifyIdle /\ RoseIdle /\ RecordIdle /\ TODAY = 0
SpecField == FieldInit /\ [][FieldNext]_vars

StoreNext == SaveData \/ UpdateData
StoreInit ==
    /\ SeasonIdle /\ TODAY \in 0..MaxDay
    /\ StoreStart /\ HarvestIdle /\ BatchIdle /\ NumericIdle /\ FieldIdle
    /\ ClassifyIdle /\ RoseIdle /\ RecordIdle
SpecStore == StoreInit /\ [][StoreNext]_vars

ClassifyNext == ClassifyDanger \/ ClassifyPresence
ClassifyInit ==
    /\ SeasonIdle /\ ClassifyStart /\ HarvestIdle /\ BatchIdle /\ NumericIdle /\ FieldIdle
    /\ StoreIdle /\ RoseIdle /\ RecordIdle /\ TODAY = 0
SpecClassify == ClassifyInit /\ [][ClassifyNext]_vars

RoseNext == GetDangerRose \/ GetLocationRose
RoseInit ==
    /\ SeasonIdle /\ RoseStart /\ HarvestIdle /\ BatchIdle /\ NumericIdle /\ FieldIdle
    /\ StoreIdle /\ ClassifyIdle /\ RecordIdle /\ TODAY = 0
SpecRose == RoseInit /\ [][RoseNext]_vars
RecordNext == ReadAvalancheObservation \/ ReadGeneralObservation
RecordInit ==
    /\ SeasonIdle /\ RecordStart /\ HarvestIdle /\ BatchIdle /\ NumericIdle /\ StoreIdle
    /\ ClassifyIdle /\ RoseIdle /\ TODAY = 0
SpecRecord == RecordInit /\ [][RecordNext]_vars

ScaleNext == MeasureLikelihood \/ MeasureSize
ScaleInit ==
    /\ SeasonIdle /\ ScaleStart /\ HarvestIdle /\ BatchIdle /\ NumericIdle /\ FieldIdle /\ StoreIdle
    /\ ClassifyIdle /\ RecordIdle /\ TODAY = 0
SpecScale == ScaleInit /\ [][ScaleNext]_vars

EntriesNext == ReadMultipleEntries
EntriesInit ==
    /\ SeasonIdle /\ EntriesStart /\ HarvestIdle /\ BatchIdle /\ NumericIdle /\ StoreIdle
    /\ ClassifyIdle /\ RoseIdle /\ TODAY = 0
SpecEntries == EntriesInit /\ [][EntriesNext]_vars

SeasonNext == GetSeasonStart
SeasonInit ==
    /\ SeasonStart /\ HarvestIdle /\ BatchIdle /\ NumericIdle /\ FieldIdle /\ StoreIdle
    /\ ClassifyIdle /\ RoseIdle /\ RecordIdle /\ TODAY = 0
SpecSeason == SeasonInit /\ [][SeasonNext]_vars
====
